---- MODULE Spec2Model ----
(***************************************************************************)
(* Model of clipboard.py: a single-threaded loop that polls the Windows    *)
(* clipboard once per second, detects new image or text content, saves a   *)
(* new image to disk, patches a JSON workflow template and POSTs it to the *)
(* ComfyUI API.                                                            *)
(*                                                                         *)
(* Strings that the program takes apart or rewrites are modelled as        *)
(* sequences of tokens: a clipboard text is a sequence of characters, a    *)
(* path string is a sequence of path segments and separator tokens.        *)
(***************************************************************************)
EXTENDS Integers, Sequences, FiniteSets, TLC

VARIABLES
    last_image_hash,    \* module global, line 28
    last_text_content,  \* module global, line 29
    pc,                 \* position of main(): "tick", "sleep", "crashed", "stopped"
    now,                \* int(time.time()) as seen by the process
    files,              \* names of the files present in INPUT_DIR
    obs,                \* what the process_clipboard() call of this tick saw and did
    prev,               \* summary of the tick before it
    probe               \* the clipboard probe in progress, statement by statement

vars == <<last_image_hash, last_text_content, pc, now, files, obs, prev, probe>>

----------------------------------------------------------------------------
(* Bounds of the model *)

MaxLen    == 2   \* longest clipboard text, in characters
MaxTime   == 2   \* the clock stops the polling loop of Spec at this second
MaxNodes  == 2   \* most nodes in a workflow template of SpecPatch
PatchTime == 1   \* the clock stops the polling loop of SpecPatch at this second

(* Program constants *)

PollInterval == 1   \* time.sleep(1)

INPUT_DIR == <<"D:", "ComfyUI_windows_portable", "ComfyUI", "input", "clipboard_images">>

----------------------------------------------------------------------------
(* Python values *)

None     == "None"          \* None where the other values are strings
NoneText == <<"None">>      \* None where the other values are texts
NoImage  == [size |-> "None", bytes |-> "None"]   \* None where the others are images

Chars == {" ", "a"}
Texts == UNION {[1..n -> Chars] : n \in 0..MaxLen}

\* An image is its dimensions and its raw pixel bytes (Image.tobytes()).
Sizes  == {"1x2", "2x1"}
Pixels == {"p1", "p2"}
Images == [size : Sizes, bytes : Pixels]

\* hashlib.md5(...).hexdigest() on the pixel buffers of the model.
MD5(bytes) == CASE bytes = "p1" -> "d41d8c"
                [] bytes = "p2" -> "9e107d"

get_image_hash(image) == MD5(image.bytes)

\* str.strip(): drop leading and trailing whitespace.
RECURSIVE LStrip(_)
LStrip(s) == IF s # <<>> /\ Head(s) = " " THEN LStrip(Tail(s)) ELSE s

RECURSIVE RStrip(_)
RStrip(s) == IF s # <<>> /\ s[Len(s)] = " " THEN RStrip(SubSeq(s, 1, Len(s) - 1)) ELSE s

Strip(s) == RStrip(LStrip(s))

\* Truth value of a str-or-None.
Truthy(s) == s # NoneText /\ s # <<>>

----------------------------------------------------------------------------
(* The clipboard probes *)

\* get_clipboard_image(): the DIB image on the clipboard, or None when there
\* is none or when opening or reading the clipboard raised.
get_clipboard_image(clip_image, fail) == IF fail THEN NoImage ELSE clip_image

\* get_clipboard_text(): the CF_UNICODETEXT data, or None likewise.
get_clipboard_text(clip_text, fail) == IF fail THEN NoneText ELSE clip_text

\* The same two functions, statement by statement.  The variable probe is
\* the call in progress:
\*   kind     : "image" for get_clipboard_image(), "text" for get_clipboard_text()
\*   at       : the statement the call has reached
\*   avail    : whether the clipboard offers the format asked for
\*   image, text : what reading that format yields
\*   busy     : whether another process has the clipboard open
\*   held     : whether this process has the clipboard open
\*   closes   : how many times CloseClipboard() was called
\*   failed   : whether OpenClipboard() or the read raised
\*   close_raised : whether CloseClipboard() raised
\*   exc      : the exception in flight, or None
\*   outcome  : "returned" or "raised" once the call is over
\*   result   : the value returned
NoResult == [image |-> NoImage, text |-> NoneText]

IdleProbe ==
    [kind |-> None, at |-> "idle", avail |-> FALSE, image |-> NoImage,
     text |-> NoneText, busy |-> FALSE, held |-> FALSE, closes |-> 0,
     failed |-> FALSE, close_raised |-> FALSE, exc |-> None, outcome |-> None,
     result |-> NoResult]

\* What ImageGrab.grabclipboard() returns for a clipboard that offers CF_DIB
\* and is no PIL image.
NotAnImage == [size |-> "filenames", bytes |-> "filenames"]

\* Line 41: isinstance(image, Image.Image)
IsImage(image) == image \in Images

\* A call begins.  The clipboard of the call is any clipboard, open in
\* another process or not.
ProbeCall ==
    /\ probe.at = "idle"
    /\ \E kind \in {"image", "text"}, avail, busy \in BOOLEAN,
          image \in Images \cup {NotAnImage}, text \in Texts :
         probe' = [IdleProbe EXCEPT
                     !.kind = kind, !.at = "open", !.avail = avail, !.busy = busy,
                     !.image = IF kind = "image" /\ avail THEN image ELSE NoImage,
                     !.text = IF kind = "text" /\ avail THEN text ELSE NoneText]
    /\ UNCHANGED <<last_image_hash, last_text_content, pc, now, files, obs, prev>>

\* Mutant: the clipboard is closed only when the try block ended without an
\* exception.
LeaveTryNoFinally(p) == [p EXCEPT !.at = IF p.failed THEN "exit" ELSE "finally"]

\* Lines 45 and 61: the finally clause runs on every way out of the try
\* statement.
LeaveTry(p) == [p EXCEPT !.at = "finally"]

\* Lines 38 and 55: OpenClipboard() raises while another process has the
\* clipboard open.
ProbeOpen ==
    /\ probe.at = "open"
    /\ probe' = IF probe.busy
                THEN [probe EXCEPT !.at = "except", !.failed = TRUE, !.exc = "error"]
                ELSE [probe EXCEPT !.at = "available", !.held = TRUE]
    /\ UNCHANGED <<last_image_hash, last_text_content, pc, now, files, obs, prev>>

\* Lines 39 and 56: IsClipboardFormatAvailable(); without the format the try
\* block ends.
ProbeAvailable ==
    /\ probe.at = "available"
    /\ probe' = IF probe.avail THEN [probe EXCEPT !.at = "read"] ELSE LeaveTry(probe)
    /\ UNCHANGED <<last_image_hash, last_text_content, pc, now, files, obs, prev>>

\* Lines 40-42 and 57-58: the read returns a value or raises.
\* ImageGrab.grabclipboard() is library code that may close the clipboard
\* itself.
ProbeRead ==
    /\ probe.at = "read"
    /\ \E ok \in BOOLEAN,
          held \in IF probe.kind = "image" THEN {probe.held, FALSE} ELSE {probe.held} :
         probe' = IF ~ok
                  THEN [probe EXCEPT !.at = "except", !.failed = TRUE,
                                     !.exc = "error", !.held = held]
                  ELSE LeaveTry([probe EXCEPT
                           !.held = held,
                           !.result = [image |-> IF IsImage(probe.image) THEN probe.image
                                                 ELSE NoImage,
                                       text |-> probe.text]])
    /\ UNCHANGED <<last_image_hash, last_text_content, pc, now, files, obs, prev>>

\* Lines 43-44 and 59-60: "except Exception: pass".
ProbeExcept ==
    /\ probe.at = "except"
    /\ probe' = LeaveTry([probe EXCEPT !.exc = None])
    /\ UNCHANGED <<last_image_hash, last_text_content, pc, now, files, obs, prev>>

\* Lines 46-47 and 62-63: CloseClipboard() closes the clipboard this process
\* has open, and raises when it has none open.
ProbeClose ==
    /\ probe.at = "finally"
    /\ probe' = IF probe.held
                THEN [probe EXCEPT !.at = "exit", !.held = FALSE, !.closes = @ + 1]
                ELSE [probe EXCEPT !.at = "close_except", !.closes = @ + 1,
                                   !.close_raised = TRUE, !.exc = "error"]
    /\ UNCHANGED <<last_image_hash, last_text_content, pc, now, files, obs, prev>>

\* Lines 48-49 and 64-65: "except Exception: pass" around CloseClipboard().
ProbeCloseExcept ==
    /\ probe.at = "close_except"
    /\ probe' = [probe EXCEPT !.at = "exit", !.exc = None]
    /\ UNCHANGED <<last_image_hash, last_text_content, pc, now, files, obs, prev>>

\* Lines 42, 50, 58 and 66: the call returns its value, unless an exception
\* is still in flight.
ProbeExit ==
    /\ probe.at = "exit"
    /\ probe' = [probe EXCEPT !.at = "done",
                              !.outcome = IF probe.exc # None THEN "raised"
                                          ELSE "returned"]
    /\ UNCHANGED <<last_image_hash, last_text_content, pc, now, files, obs, prev>>

\* The caller goes on.
ProbeReturn ==
    /\ probe.at = "done"
    /\ probe' = IdleProbe
    /\ UNCHANGED <<last_image_hash, last_text_content, pc, now, files, obs, prev>>

----------------------------------------------------------------------------
(* The workflow template: the JSON document at WORKFLOW_TEMPLATE.           *)
(* A template is the outcome of open() + json.load(): unreadable, a JSON    *)
(* value that is no object, or an object whose values are listed in file    *)
(* order.  A node records the shape create_api_prompt looks at.             *)

Node(isDict, meta, title, class_type, inputsKind, inputs) ==
    [isDict |-> isDict, meta |-> meta, title |-> title, class_type |-> class_type,
     inputsKind |-> inputsKind, inputs |-> inputs]

ImageNode      == Node(TRUE, "dict", "load_clipboard_image", "LoadImage", "dict",
                       [image |-> <<"old.png">>, upload |-> <<"image">>])
ImageNodeOther == Node(TRUE, "dict", "load_clipboard_image", "PreviewImage", "dict",
                       [image |-> <<"old.png">>, upload |-> <<"image">>])
ImageNodeBare  == Node(TRUE, "dict", "load_clipboard_image", "LoadImage", "absent",
                       [x \in {} |-> <<>>])
TextNode       == Node(TRUE, "dict", "load_clipboard_text", "CLIPTextEncode", "dict",
                       [text |-> <<"old">>, clip |-> <<"4">>])
OtherNode      == Node(TRUE, "dict", "KSampler", "KSampler", "dict",
                       [seed |-> <<"7">>])
NoMetaNode     == Node(TRUE, "absent", None, "SaveImage", "dict",
                       [image |-> <<"old.png">>])
BadMetaNode    == Node(TRUE, "scalar", None, "Note", "dict",
                       [text |-> <<"old">>])
ScalarNode     == Node(FALSE, "absent", None, None, "absent",
                       [x \in {} |-> <<>>])

NodeSet == {ImageNode, ImageNodeOther, ImageNodeBare, TextNode, OtherNode,
            NoMetaNode, BadMetaNode, ScalarNode}

Unreadable == [kind |-> "unreadable", nodes |-> <<>>]
NonObject  == [kind |-> "nonobject", nodes |-> <<>>]
Object(nodes) == [kind |-> "object", nodes |-> nodes]

AllTemplates ==
    {Unreadable, NonObject}
        \cup {Object(ns) : ns \in UNION {[1..n -> NodeSet] : n \in 0..MaxNodes}}

LoopTemplates ==
    {Unreadable, Object(<<OtherNode, ImageNode, TextNode>>), Object(<<OtherNode>>),
     Object(<<ImageNodeBare>>)}

----------------------------------------------------------------------------
(* create_api_prompt *)

\* Path.name: the last segment of a path.
Name(path) == path[Len(path)]

\* INPUT_DIR / f"clipboard_{int(time.time())}.png"
ImagePath(t) == Append(INPUT_DIR, "clipboard_" \o ToString(t) \o ".png")

\* str.replace("\\", "/") on a string given as segments and separators.
ReplaceBackslash(str) == [i \in DOMAIN str |-> IF str[i] = "\\" THEN "/" ELSE str[i]]

\* Mutant: the two names joined with the separator of the platform, and no
\* replace().
NewImageValueBackslash(image_path) ==
    <<Name(INPUT_DIR), "\\", Name(image_path)>>

\* f"{INPUT_DIR.name}/{image_path.name}".replace("\\", "/")
NewImageValue(image_path) ==
    ReplaceBackslash(<<Name(INPUT_DIR), "/", Name(image_path)>>)

TargetTitle(content_type) ==
    IF content_type = "image" THEN "load_clipboard_image" ELSE "load_clipboard_text"

TargetInput(content_type) == IF content_type = "image" THEN "image" ELSE "text"

NewValue(content, content_type) ==
    IF content_type = "image" THEN NewImageValue(content) ELSE content

\* node_data.get("_meta", {}).get("title")
Title(node) == IF node.meta = "dict" THEN node.title ELSE None

\* The test of line 92 on one node: "skip", "match", or "raise" when _meta
\* is a value without .get().
Matches(node, target_title) ==
    IF ~node.isDict THEN "skip"
    ELSE IF node.meta = "scalar" THEN "raise"
    ELSE IF Title(node) = target_title THEN "match"
    ELSE "skip"

\* The loop of lines 91-96 from node i on: the index of the first node that
\* matches (0 when none does), and whether the loop raised at that node.
RECURSIVE FindTarget(_, _, _)
FindTarget(nodes, i, target_title) ==
    IF i > Len(nodes) THEN [at |-> 0, raised |-> FALSE]
    ELSE LET m == Matches(nodes[i], target_title) IN
         CASE m = "raise" -> [at |-> i, raised |-> TRUE]
           [] m = "match" -> [at |-> i, raised |-> nodes[i].inputsKind # "dict"]
           [] OTHER       -> FindTarget(nodes, i + 1, target_title)

\* d[k] = v on a dict.
SetItem(d, k, v) == [x \in DOMAIN d \cup {k} |-> IF x = k THEN v ELSE d[x]]

\* Mutant: the image patch is skipped on a node whose class_type is not
\* LoadImage.
PatchNodeTypeGuarded(node, target_input, new_value) ==
    IF target_input = "image" /\ node.class_type # "LoadImage"
    THEN node
    ELSE [node EXCEPT !.inputs = SetItem(node.inputs, target_input, new_value)]

\* prompt[node_id]["inputs"][target_input] = new_value
PatchNode(node, target_input, new_value) ==
    [node EXCEPT !.inputs = SetItem(node.inputs, target_input, new_value)]

Payload(nodes) == [prompt |-> nodes, client_id |-> "clipboard_script"]
NoPayload      == [prompt |-> <<>>, client_id |-> None]

\* Mutant: a template without the target node aborts the dispatch.
create_api_prompt_AbortOnMissing(tpl, content, content_type) ==
    IF tpl.kind = "unreadable" THEN [raised |-> "template", value |-> NoPayload]
    ELSE IF tpl.kind = "nonobject" THEN [raised |-> "patch", value |-> NoPayload]
    ELSE LET found == FindTarget(tpl.nodes, 1, TargetTitle(content_type)) IN
         IF found.raised \/ found.at = 0 THEN [raised |-> "patch", value |-> NoPayload]
         ELSE [raised |-> None,
               value  |-> Payload([tpl.nodes EXCEPT ![found.at] =
                              PatchNode(@, TargetInput(content_type),
                                        NewValue(content, content_type))])]

\* create_api_prompt(content, content_type) on the template read from disk:
\* the exception that escapes it (None when none does) and its return value.
create_api_prompt(tpl, content, content_type) ==
    IF tpl.kind = "unreadable" THEN [raised |-> "template", value |-> NoPayload]
    ELSE IF tpl.kind = "nonobject" THEN [raised |-> "patch", value |-> NoPayload]
    ELSE LET found == FindTarget(tpl.nodes, 1, TargetTitle(content_type)) IN
         IF found.raised THEN [raised |-> "patch", value |-> NoPayload]
         ELSE IF found.at = 0 THEN [raised |-> None, value |-> Payload(tpl.nodes)]
         ELSE [raised |-> None,
               value  |-> Payload([tpl.nodes EXCEPT ![found.at] =
                              PatchNode(@, TargetInput(content_type),
                                        NewValue(content, content_type))])]

----------------------------------------------------------------------------
(* send_to_api *)

\* The fate of requests.post(): a response with a success status, a
\* transport error, a response with an error status.
NetOutcomes == {"ok", "network_error", "bad_status"}

\* KeyboardInterrupt arrives while requests.post() is in flight.
Interrupted == "interrupted"

NoRequest == [sent |-> FALSE, body |-> NoPayload, outcome |-> None, attempts |-> 0]

\* Mutant: a failed POST is made a second time.
send_to_api_Retry(workflow_prompt, net) ==
    IF workflow_prompt = NoPayload THEN NoRequest
    ELSE [sent |-> TRUE, body |-> workflow_prompt, outcome |-> net,
          attempts |-> IF net \in {"network_error", "bad_status"} THEN 2 ELSE 1]

\* send_to_api(workflow_prompt): the POST it makes, if any, and how many
\* times it makes it.  Every Exception of the POST is caught and logged.
send_to_api(workflow_prompt, net) ==
    IF workflow_prompt = NoPayload THEN NoRequest
    ELSE [sent |-> TRUE, body |-> workflow_prompt, outcome |-> net, attempts |-> 1]

\* Mutant: send_to_api() catches everything, KeyboardInterrupt included.
EscapesSendToApiNever(outcome) == FALSE

\* Line 162: "except Exception" does not catch KeyboardInterrupt, which is a
\* BaseException.
EscapesSendToApi(outcome) == outcome = Interrupted

----------------------------------------------------------------------------
(* process_clipboard *)

NoTemplate == [kind |-> "unread", nodes |-> <<>>]

\* What one call of process_clipboard() saw and did.
\*   clip_image, clip_text : what the clipboard held during the call
\*   image_fail, text_fail : whether the probe of the image, of the text, failed
\*   image                 : what get_clipboard_image() returned
\*   text_probed, text     : whether get_clipboard_text() was called, and its result
\*   cls                   : "NewImage", "NewText", "Unchanged" or "Empty"
\*   saved                 : the name of the file image.save() wrote, or None
\*   content_type          : the content_type handed to create_api_prompt(), or None
\*   tpl                   : the template create_api_prompt() read, or NoTemplate
\*   raised                : the exception that escaped the call ("save",
\*                           "template", "patch", "interrupt"), or None
\*   http                  : the POST made by send_to_api(), or NoRequest
Observation(in, image, text_probed, text, cls, saved, d) ==
    [clip_image |-> in.clip_image, clip_text |-> in.clip_text,
     image_fail |-> in.image_fail, text_fail |-> in.text_fail,
     image |-> image, text_probed |-> text_probed, text |-> text, cls |-> cls,
     saved |-> saved, content_type |-> d.content_type, tpl |-> d.tpl,
     raised |-> d.raised, http |-> d.http]

NoDispatch ==
    [content_type |-> None, tpl |-> NoTemplate, raised |-> None, http |-> NoRequest]

\* image.save(image_path) raised: nothing after line 123 runs.
SaveFailed ==
    [content_type |-> None, tpl |-> NoTemplate, raised |-> "save", http |-> NoRequest]

\* KeyboardInterrupt arrived before create_api_prompt() was called.
CutShort ==
    [content_type |-> None, tpl |-> NoTemplate, raised |-> "interrupt",
     http |-> NoRequest]

\* Lines 127-128 and 142-143: build the prompt and send it.
Dispatch(in, content, content_type) ==
    LET workflow_prompt == create_api_prompt(in.tpl, content, content_type)
        http == IF workflow_prompt.raised # None THEN NoRequest
                ELSE send_to_api(workflow_prompt.value, in.net)
    IN  [content_type |-> content_type,
         tpl    |-> in.tpl,
         raised |-> IF workflow_prompt.raised # None THEN workflow_prompt.raised
                    ELSE IF EscapesSendToApi(http.outcome) THEN "interrupt"
                    ELSE None,
         http   |-> http]

\* Mutant: the fingerprint is never found equal to the stored one.
SameImageNever(current_hash, last) == FALSE

\* Line 114.
SameImage(current_hash, last) == current_hash = last

\* Mutant: a text is never taken for the one dispatched last.
SameTextNever(text, last) == FALSE

\* Line 134.
SameText(text, last) == text = last

\* Mutant: the text tracker is not reset.
NewImageTrackersKeepText(st, current_hash) ==
    [last_image_hash |-> current_hash, last_text_content |-> st.last_text_content]

\* Lines 118-119.
NewImageTrackers(st, current_hash) ==
    [last_image_hash |-> current_hash, last_text_content |-> NoneText]

\* Mutant: the image tracker is not reset.
NewTextTrackersKeepHash(st, text) ==
    [last_image_hash |-> st.last_image_hash, last_text_content |-> text]

\* Lines 138-139.
NewTextTrackers(st, text) ==
    [last_image_hash |-> None, last_text_content |-> text]

\* Mutant: only the image tracker is reset.
ResetTrackersImageOnly(st) ==
    [last_image_hash |-> None, last_text_content |-> st.last_text_content]

\* Lines 147-150.
ResetTrackers(st) ==
    IF st.last_image_hash # None \/ st.last_text_content # NoneText
    THEN [last_image_hash |-> None, last_text_content |-> NoneText]
    ELSE [last_image_hash |-> st.last_image_hash,
          last_text_content |-> st.last_text_content]

KeepTrackers(st) ==
    [last_image_hash |-> st.last_image_hash,
     last_text_content |-> st.last_text_content]

Result(trackers, files_, o) ==
    [last_image_hash |-> trackers.last_image_hash,
     last_text_content |-> trackers.last_text_content,
     files |-> files_, obs |-> o]

\* Mutant: an exception of image.save() is swallowed and the dispatch is made.
SaveRaisedDispatch(in, image_path) == Dispatch(in, image_path, "image")

\* Lines 121-123 raise: the exception leaves process_clipboard() and lines
\* 124-129 do not run.
SaveRaised(in, image_path) == SaveFailed

\* Lines 113-129: the clipboard holds an image.
ImageBranch(st, in, image) ==
    LET current_hash == get_image_hash(image)
        image_path   == ImagePath(st.now)
    IN  IF SameImage(current_hash, st.last_image_hash)
        THEN Result(KeepTrackers(st), st.files,
                    Observation(in, image, FALSE, NoneText, "Unchanged", None,
                                NoDispatch))
        ELSE IF in.intr = "state"
        THEN Result(NewImageTrackers(st, current_hash), st.files,
                    Observation(in, image, FALSE, NoneText, "NewImage", None,
                                CutShort))
        ELSE IF ~in.save_ok
        THEN Result(NewImageTrackers(st, current_hash), st.files,
                    Observation(in, image, FALSE, NoneText, "NewImage", None,
                                SaveRaised(in, image_path)))
        ELSE IF in.intr = "saved"
        THEN Result(NewImageTrackers(st, current_hash),
                    st.files \cup {Name(image_path)},
                    Observation(in, image, FALSE, NoneText, "NewImage",
                                Name(image_path), CutShort))
        ELSE Result(NewImageTrackers(st, current_hash),
                    st.files \cup {Name(image_path)},
                    Observation(in, image, FALSE, NoneText, "NewImage",
                                Name(image_path), Dispatch(in, image_path, "image")))

\* Lines 134-144: no image, and the text is not blank.
TextBranch(st, in, text) ==
    IF SameText(text, st.last_text_content)
    THEN Result(KeepTrackers(st), st.files,
                Observation(in, NoImage, TRUE, text, "Unchanged", None, NoDispatch))
    ELSE IF in.intr = "state"
    THEN Result(NewTextTrackers(st, text), st.files,
                Observation(in, NoImage, TRUE, text, "NewText", None, CutShort))
    ELSE Result(NewTextTrackers(st, text), st.files,
                Observation(in, NoImage, TRUE, text, "NewText", None,
                            Dispatch(in, text, "text")))

\* Mutant: the trackers are kept when both probes failed.
ResetBranchKeepOnFailure(st, in, text) ==
    Result(IF in.image_fail /\ in.text_fail THEN KeepTrackers(st) ELSE ResetTrackers(st),
           st.files,
           Observation(in, NoImage, TRUE, text, "Empty", None, NoDispatch))

\* Lines 146-150: neither an image nor a text that is not blank.
ResetBranch(st, in, text) ==
    Result(ResetTrackers(st), st.files,
           Observation(in, NoImage, TRUE, text, "Empty", None, NoDispatch))

\* Mutant: the text is not stripped before it is tested.
IsUsableTextNoStrip(text) == Truthy(text)

\* Line 133: the text is neither None, nor empty, nor whitespace only.
IsUsableText(text) == Truthy(text) /\ Truthy(Strip(text))

\* Mutant: the text is probed first, the image only when there is no text.
process_clipboard_TextFirst(st, in) ==
    LET text == get_clipboard_text(in.clip_text, in.text_fail) IN
    IF IsUsableText(text)
    THEN TextBranch(st, in, text)
    ELSE LET image == get_clipboard_image(in.clip_image, in.image_fail) IN
         IF image # NoImage
         THEN ImageBranch(st, in, image)
         ELSE ResetBranch(st, in, text)

\* Mutant: a probe that fails ends the call and the trackers keep their
\* values.
process_clipboard_FailEndsCall(st, in) ==
    LET image == get_clipboard_image(in.clip_image, in.image_fail) IN
    IF in.image_fail
    THEN Result(KeepTrackers(st), st.files,
                Observation(in, NoImage, FALSE, NoneText, "Empty", None, NoDispatch))
    ELSE IF image # NoImage
    THEN ImageBranch(st, in, image)
    ELSE LET text == get_clipboard_text(in.clip_text, in.text_fail) IN
         IF in.text_fail
         THEN Result(KeepTrackers(st), st.files,
                     Observation(in, NoImage, TRUE, NoneText, "Empty", None, NoDispatch))
         ELSE IF IsUsableText(text)
         THEN TextBranch(st, in, text)
         ELSE ResetBranch(st, in, text)

\* process_clipboard() in state st on the inputs in.
process_clipboard(st, in) ==
    LET image == get_clipboard_image(in.clip_image, in.image_fail) IN
    IF image # NoImage
    THEN ImageBranch(st, in, image)
    ELSE LET text == get_clipboard_text(in.clip_text, in.text_fail) IN
         IF IsUsableText(text)
         THEN TextBranch(st, in, text)
         ELSE ResetBranch(st, in, text)

----------------------------------------------------------------------------
(* main: the polling loop *)

\* No call of process_clipboard() has run since the loop last slept.
NoObservation ==
    [clip_image |-> NoImage, clip_text |-> NoneText,
     image_fail |-> FALSE, text_fail |-> FALSE,
     image |-> NoImage, text_probed |-> FALSE, text |-> NoneText, cls |-> "Idle",
     saved |-> None, content_type |-> None, tpl |-> NoTemplate, raised |-> None,
     http |-> NoRequest]

\* The content a tick found on the clipboard: the fingerprint of its image
\* and the text it read.
Content(o) ==
    [hash |-> IF o.image = NoImage THEN None ELSE get_image_hash(o.image),
     text |-> o.text]

NoContent == [hash |-> None, text |-> NoneText]

\* What is kept of a tick while the next one runs: its classification, its
\* content, whether both of its probes failed, whether it made a POST, and
\* of the latest POST so far whether it failed and the content it carried.
Summary(o, p) ==
    [cls |-> o.cls,
     content |-> Content(o),
     probes_failed |-> o.image_fail /\ o.text_fail,
     sent |-> o.http.sent,
     failed |-> IF o.http.sent THEN o.http.outcome \in {"network_error", "bad_status"}
                ELSE p.failed,
     last_sent |-> IF o.http.sent THEN Content(o) ELSE p.last_sent]

NoSummary ==
    [cls |-> "Start", content |-> NoContent, probes_failed |-> FALSE,
     sent |-> FALSE, failed |-> FALSE, last_sent |-> NoContent]

Init ==
    /\ last_image_hash = None
    /\ last_text_content = NoneText
    /\ pc = "tick"
    /\ now = 0
    /\ files = {}
    /\ obs = NoObservation
    /\ prev = NoSummary
    /\ probe = IdleProbe

\* Where KeyboardInterrupt can cut a call of process_clipboard() short, apart
\* from the POST: not at all, once the trackers are updated (after line 119
\* or 139; the two assignments are taken as one step), once the image is
\* saved (after line 123).
InterruptPoints == {"none", "state", "saved"}

\* What the world hands to one call of process_clipboard(): the clipboard,
\* whether each probe fails, whether the image can be saved, the template on
\* disk, the fate of the POST and where an interrupt arrives.  An outcome is
\* drawn only for a step that the call takes, the clipboard behind a failed
\* probe is not looked at, and one text stands for every text that lies
\* behind an image and is never read.
Inputs(images, texts, templates, fails, outcomes, intrs) ==
    {in \in [clip_image : images \cup {NoImage}, clip_text : texts \cup {NoneText},
             image_fail : fails, text_fail : fails, save_ok : {~f : f \in fails},
             tpl : templates, net : outcomes, intr : intrs] :
        LET r == process_clipboard([last_image_hash |-> None,
                                    last_text_content |-> NoneText,
                                    files |-> {}, now |-> 0], in)
        IN  /\ (in.image_fail => in.clip_image = NoImage)
            /\ (in.text_fail => in.clip_text = NoneText)
            /\ (~r.obs.text_probed => ~in.text_fail /\ in.clip_text \in {NoneText, <<"a">>})
            /\ (r.obs.cls \notin {"NewImage", "NewText"} => in.intr = "none")
            /\ (in.intr = "saved" => r.obs.cls = "NewImage")
            /\ (r.obs.cls # "NewImage" \/ in.intr = "state" => in.save_ok)
            /\ (r.obs.content_type = None => in.tpl = Unreadable)
            /\ (~r.obs.http.sent => in.net = "ok")}

\* The polling loop meets every clipboard, failure, outcome and interrupt on
\* a few templates.
LoopInputs ==
    Inputs(Images, Texts, LoopTemplates, BOOLEAN, NetOutcomes \cup {Interrupted},
           InterruptPoints)

\* The dispatch meets every template on a few clipboards, without failures
\* or interrupts.
PatchInputs ==
    Inputs({[size |-> "1x2", bytes |-> "p1"]}, {<<"a">>}, AllTemplates, {FALSE},
           {"ok"}, {"none"})

\* Line 170: one call of process_clipboard().  An exception that escapes it
\* is not caught by main(), whose handler is for KeyboardInterrupt only: a
\* KeyboardInterrupt inside the call ends the loop there (lines 172-173).
Tick(inputs) ==
    /\ pc = "tick"
    /\ \E in \in inputs :
         LET r == process_clipboard([last_image_hash |-> last_image_hash,
                                    last_text_content |-> last_text_content,
                                    files |-> files, now |-> now], in)
         IN  /\ last_image_hash' = r.last_image_hash
             /\ last_text_content' = r.last_text_content
             /\ files' = r.files
             /\ obs' = r.obs
             /\ pc' = CASE r.obs.raised = None -> "sleep"
                        [] r.obs.raised = "interrupt" -> "stopped"
                        [] OTHER -> "crashed"
    /\ UNCHANGED <<now, prev, probe>>

\* Mutant: the sleep may return within the second in which it began.
SleepNoWait(horizon) ==
    /\ pc = "sleep"
    /\ \E d \in 0..PollInterval :
         /\ now + d <= horizon
         /\ now' = now + d
    /\ pc' = "tick"
    /\ prev' = Summary(obs, prev)
    /\ obs' = NoObservation
    /\ UNCHANGED <<last_image_hash, last_text_content, files, probe>>

\* Line 171: time.sleep(1) returns after at least one second, on a clock
\* that does not run backwards.
Sleep(horizon) ==
    /\ pc = "sleep"
    /\ \E d \in PollInterval..(PollInterval + 1) :
         /\ now + d <= horizon
         /\ now' = now + d
    /\ pc' = "tick"
    /\ prev' = Summary(obs, prev)
    /\ obs' = NoObservation
    /\ UNCHANGED <<last_image_hash, last_text_content, files, probe>>

\* Lines 172-173: KeyboardInterrupt while the loop sleeps ends main().
Interrupt ==
    /\ pc = "sleep"
    /\ pc' = "stopped"
    /\ UNCHANGED <<last_image_hash, last_text_content, now, files, obs, prev, probe>>

Next == Tick(LoopInputs) \/ Sleep(MaxTime) \/ Interrupt

Spec == Init /\ [][Next]_vars

NextPatch == Tick(PatchInputs) \/ Sleep(PatchTime) \/ Interrupt

SpecPatch == Init /\ [][NextPatch]_vars

\* One clipboard probe after another, statement by statement.
NextProbe ==
    \/ ProbeCall
    \/ ProbeOpen
    \/ ProbeAvailable
    \/ ProbeRead
    \/ ProbeExcept
    \/ ProbeClose
    \/ ProbeCloseExcept
    \/ ProbeExit
    \/ ProbeReturn

SpecProbe == Init /\ [][NextProbe]_vars

----------------------------------------------------------------------------
(* Properties *)

BothNull == last_image_hash = None /\ last_text_content = NoneText

BothSet == last_image_hash # None /\ last_text_content # NoneText

\* The image probe of this tick returned an image.
ImageReturned == obs.clip_image # NoImage /\ ~obs.image_fail

\* The text is made of whitespace only (or of nothing).
Blank(text) == text # NoneText /\ \A i \in DOMAIN text : text[i] = " "

NonBlank(text) == text # NoneText /\ \E i \in DOMAIN text : text[i] # " "

\* This tick and the one before it both found an image, with one fingerprint.
SameImageTwice ==
    /\ ImageReturned
    /\ prev.content.hash # None
    /\ prev.content.hash = MD5(obs.clip_image.bytes)

\* C1 as stated: over two consecutive ticks that yield an image with the same
\* fingerprint exactly one HTTP submission happens, and the second tick is
\* Unchanged and submits nothing.
C1_ExactlyOneDispatch ==
    SameImageTwice =>
        /\ obs.cls = "Unchanged"
        /\ ~obs.http.sent
        /\ prev.sent

\* C1 as amended: of two consecutive ticks that yield an image with the same
\* fingerprint the second is Unchanged, saves no file and submits nothing, and
\* the first submitted exactly when it was classified NewImage; so at most one
\* submission happens over the two ticks.
C1_SecondTickUnchanged ==
    SameImageTwice =>
        /\ obs.cls = "Unchanged"
        /\ ~obs.http.sent
        /\ obs.saved = None
        /\ (prev.sent <=> prev.cls = "NewImage")

C1_Witness ==
    /\ SameImageTwice
    /\ prev.cls = "NewImage"
    /\ prev.sent
    /\ obs.cls = "Unchanged"

\* C2: when the template cannot be read or parsed during a dispatch, nothing
\* is submitted, the trackers keep the value set for the new content, and the
\* polling loop goes on.
C2_TemplateFailureEndsCycleOnly ==
    obs.tpl = Unreadable =>
        /\ ~obs.http.sent
        /\ last_image_hash = Content(obs).hash
        /\ last_text_content = Content(obs).text
        /\ pc # "crashed"

\* C3: no failure inside a tick ends the process: after every tick the loop
\* reaches the sleep.
C3_NoErrorIsFatal == obs.raised # None => pc # "crashed"

\* C4: in a tick whose image probe returns an image the text probe is not
\* made, no text is dispatched and last_text_content is null after the tick,
\* whatever text the clipboard holds.
C4_ImagePriority ==
    ImageReturned =>
        /\ ~obs.text_probed
        /\ obs.cls \in {"NewImage", "Unchanged"}
        /\ obs.content_type # "text"
        /\ last_text_content = NoneText

C4_Witness ==
    /\ ImageReturned
    /\ NonBlank(obs.clip_text)
    /\ obs.http.sent
    /\ prev.cls = "NewText"

\* C5: after a tick classified Empty both trackers are null, and the next
\* tick that yields an image or a text that is not blank is classified New and
\* dispatched (its POST is made unless an exception ends the tick first),
\* whatever was dispatched before the Empty tick.
C5_ResetLaw ==
    /\ (obs.cls = "Empty" => BothNull)
    /\ (prev.cls = "Empty" /\ obs.cls = "Idle" => BothNull)
    /\ (prev.cls = "Empty" /\ ImageReturned =>
            /\ obs.cls = "NewImage"
            /\ (obs.raised = None => obs.http.sent /\ obs.content_type = "image"))
    /\ (prev.cls = "Empty" /\ ~ImageReturned /\ obs.text_probed /\ NonBlank(obs.text) =>
            /\ obs.cls = "NewText"
            /\ (obs.raised = None => obs.http.sent /\ obs.content_type = "text"))

C5_Witness ==
    /\ prev.cls = "Empty"
    /\ prev.last_sent = Content(obs)
    /\ obs.cls \in {"NewImage", "NewText"}
    /\ obs.http.sent

\* C6 as stated: in every reachable state exactly one of last_image_hash and
\* last_text_content is non-null.
C6_ExactlyOneNonNull == (last_image_hash # None) # (last_text_content # NoneText)

\* C6 as amended: between ticks the two are never both non-null; exactly one
\* is non-null after a tick classified NewImage, NewText or Unchanged, and
\* both are null at start-up and after a tick classified Empty.
C6_AtMostOneNonNull ==
    /\ ~BothSet
    /\ (obs.cls \in {"NewImage", "NewText", "Unchanged"} => ~BothNull)
    /\ (obs.cls = "Empty" \/ (prev.cls = "Start" /\ obs.cls = "Idle") => BothNull)

C6_Witness ==
    /\ prev.cls = "NewText"
    /\ obs.cls = "NewImage"
    /\ last_image_hash # None
    /\ last_text_content = NoneText

\* C7: after a tick classified NewImage the stored text is null and the stored
\* fingerprint is that of the new image; after a tick classified NewText the
\* stored fingerprint is null and the stored text is the new text; the two
\* trackers are never both non-null.
C7_MutualExclusion ==
    /\ (obs.cls = "NewImage" =>
            /\ last_text_content = NoneText
            /\ last_image_hash = MD5(obs.clip_image.bytes))
    /\ (obs.cls = "NewText" =>
            /\ last_image_hash = None
            /\ last_text_content = obs.clip_text)
    /\ ~BothSet

C7_Witness ==
    /\ prev.cls = "NewImage"
    /\ obs.cls = "NewText"
    /\ last_image_hash = None
    /\ last_text_content = obs.clip_text

\* The nodes of a template that carry the title load_clipboard_image.
TitledImage(nodes) ==
    {i \in DOMAIN nodes :
        nodes[i].isDict /\ nodes[i].meta = "dict"
            /\ nodes[i].title = "load_clipboard_image"}

First(S) == CHOOSE i \in S : \A j \in S : i <= j

\* This tick dispatched an image and its POST was made.
ImageSubmitted == obs.content_type = "image" /\ obs.http.sent

\* "clipboard_images/<name>"
ImageRef(name) == <<"clipboard_images", "/", name>>

C9_BlankTextIsEmpty ==
    ~ImageReturned /\ ~obs.text_fail /\ Blank(obs.clip_text) /\ obs.cls # "Idle" =>
        /\ obs.cls = "Empty"
        /\ obs.content_type = None
        /\ ~obs.http.sent
        /\ BothNull

C9_Witness ==
    /\ ~ImageReturned
    /\ obs.clip_text = <<" ">>
    /\ prev.cls \in {"NewText", "NewImage"}
    /\ obs.cls = "Empty"
    /\ BothNull

\* C10: in an image dispatch on a template with a node titled
\* load_clipboard_image, the first such node of the submitted prompt has
\* inputs.image = "clipboard_images/<saved file name>", without a backslash,
\* and every other node of the submitted prompt is the node of the template.
C10_TemplatePatch ==
    ImageSubmitted /\ TitledImage(obs.tpl.nodes) # {} =>
        LET k == First(TitledImage(obs.tpl.nodes))
            submitted == obs.http.body.prompt
        IN  /\ obs.saved \in files
            /\ DOMAIN submitted = DOMAIN obs.tpl.nodes
            /\ submitted[k].inputs.image = ImageRef(obs.saved)
            /\ \A j \in DOMAIN submitted[k].inputs.image :
                   submitted[k].inputs.image[j] # "\\"
            /\ \A i \in DOMAIN submitted \ {k} : submitted[i] = obs.tpl.nodes[i]

C10_Witness ==
    /\ ImageSubmitted
    /\ TitledImage(obs.tpl.nodes) = {2}
    /\ obs.tpl.nodes[1] = TextNode
    /\ obs.http.body.prompt[2].inputs.image = ImageRef(obs.saved)

\* The nodes of a template that carry the given title.
Titled(nodes, title) ==
    {i \in DOMAIN nodes :
        nodes[i].isDict /\ nodes[i].meta = "dict" /\ nodes[i].title = title}

\* The sentinel title of a content kind.
Sentinel(kind) ==
    IF kind = "image" THEN "load_clipboard_image" ELSE "load_clipboard_text"

\* Every _meta of the template is an object, as the data model has it.
MetaAreObjects(nodes) ==
    \A i \in DOMAIN nodes : nodes[i].isDict => nodes[i].meta # "scalar"

\* This tick called create_api_prompt() on a template, a JSON object of nodes,
\* none of which carries the sentinel title of the content kind.
DispatchWithoutTarget ==
    /\ obs.content_type # None
    /\ obs.tpl.kind = "object"
    /\ MetaAreObjects(obs.tpl.nodes)
    /\ Titled(obs.tpl.nodes, Sentinel(obs.content_type)) = {}

\* C11: when no node of the template carries the sentinel title of the content
\* kind, the dispatch is not aborted: no exception ends the tick, one POST is
\* made, and its body is the template as read, with client_id
\* "clipboard_script".
C11_MissingNodeNotFatal ==
    DispatchWithoutTarget =>
        /\ obs.raised \in {None, "interrupt"}
        /\ obs.http.sent
        /\ obs.http.body.prompt = obs.tpl.nodes
        /\ obs.http.body.client_id = "clipboard_script"
        /\ pc # "crashed"

C11_Witness ==
    /\ DispatchWithoutTarget
    /\ obs.content_type = "text"
    /\ obs.tpl.nodes = <<OtherNode, ImageNode>>
    /\ obs.http.sent
    /\ obs.http.body.prompt = <<OtherNode, ImageNode>>

\* The fingerprint and the text that the probes of this tick return.
HashNow == IF ImageReturned THEN MD5(obs.clip_image.bytes) ELSE None

TextNow == IF ImageReturned \/ obs.text_fail THEN NoneText ELSE obs.clip_text

\* The tick before this one found content, and this tick finds the content of
\* the latest POST again.
SameAsLastSent ==
    /\ prev.cls \in {"NewImage", "NewText", "Unchanged"}
    /\ \/ HashNow # None /\ prev.last_sent.hash = HashNow
       \/ HashNow = None /\ NonBlank(TextNow) /\ prev.last_sent = [hash |-> None, text |-> TextNow]

\* C12: a tick makes at most one HTTP request; when the request fails on a
\* network error or an error status the trackers already hold the content and
\* the loop goes on; and while the clipboard keeps that content the following
\* ticks are Unchanged and send nothing.
C12_NoRetry ==
    /\ obs.http.attempts <= 1
    /\ (obs.http.outcome \in {"network_error", "bad_status"} =>
            /\ obs.raised = None
            /\ pc # "crashed"
            /\ last_image_hash = Content(obs).hash
            /\ last_text_content = Content(obs).text)
    /\ (prev.failed /\ SameAsLastSent =>
            /\ obs.cls = "Unchanged"
            /\ ~obs.http.sent
            /\ obs.raised = None
            /\ pc # "crashed")

C12_Witness ==
    /\ prev.failed
    /\ prev.cls = "Unchanged"
    /\ SameAsLastSent
    /\ HashNow # None
    /\ obs.cls = "Unchanged"
    /\ obs.http.attempts = 0

\* image.save() of this tick returned: the tick is NewImage and ended neither
\* in the save nor in an interrupt before it.
SaveReturned ==
    /\ obs.cls = "NewImage"
    /\ obs.raised # "save"
    /\ (obs.raised = "interrupt" => obs.saved # None)

C14_TickRunsToCompletion == pc = "stopped" => obs.raised = None

\* C14 as amended: an interrupt ends the loop wherever it arrives.  Between
\* ticks it stops the loop after a tick that ran to completion; inside a tick
\* it is the one thing that leaves process_clipboard() and still reaches the
\* handler of main(), send_to_api() does not hold it back, and the process
\* stops with the trackers advanced to content whose POST was not made or
\* not finished.
C14_InterruptCutsTick ==
    /\ (pc = "stopped" => obs.raised \in {None, "interrupt"})
    /\ (obs.http.outcome = Interrupted => obs.raised = "interrupt")
    /\ (obs.raised = "interrupt" =>
            /\ pc = "stopped"
            /\ obs.cls \in {"NewImage", "NewText"}
            /\ last_image_hash = Content(obs).hash
            /\ last_text_content = Content(obs).text
            /\ obs.http.outcome \in {None, Interrupted})

C14_Witness ==
    /\ pc = "stopped"
    /\ obs.raised = "interrupt"
    /\ obs.cls = "NewImage"
    /\ last_image_hash = get_image_hash(obs.image)
    /\ obs.saved \in files
    /\ ~obs.http.sent

\* C15: when a probe is over it has returned, it has called CloseClipboard()
\* once on the way, whether it read content, found the format missing or
\* failed to open or to read, and this process does not have the clipboard
\* open; an exception of CloseClipboard() is not what ends the probe.
C15_ScopedAcquisition ==
    /\ (probe.at \in {"idle", "done"} => ~probe.held)
    /\ (probe.at = "done" =>
            /\ probe.closes = 1
            /\ probe.outcome = "returned"
            /\ probe.exc = None)

C15_Witness ==
    /\ probe.at = "done"
    /\ probe.kind = "text"
    /\ probe.failed
    /\ ~probe.busy
    /\ ~probe.close_raised
    /\ probe.closes = 1
    /\ ~probe.held

\* C16: in a NewImage tick the trackers are set before anything else, the
\* template is read only after the file is written, and a POST is made only
\* after both; so the image reference of a submitted prompt names a file
\* written in this tick, and a tick whose image.save() raised read no
\* template and submitted nothing.
C16_PersistBeforeDispatch ==
    obs.cls = "NewImage" =>
        /\ last_image_hash = get_image_hash(obs.image)
        /\ last_text_content = NoneText
        /\ (obs.tpl # NoTemplate =>
                /\ obs.saved = "clipboard_" \o ToString(now) \o ".png"
                /\ obs.saved \in files)
        /\ (obs.http.sent =>
                /\ obs.content_type = "image"
                /\ obs.tpl.kind = "object"
                /\ obs.saved \in files
                /\ \A k \in TitledImage(obs.tpl.nodes) :
                       k = First(TitledImage(obs.tpl.nodes)) =>
                           obs.http.body.prompt[k].inputs.image = ImageRef(obs.saved))
        /\ (obs.raised = "save" =>
                /\ obs.saved = None
                /\ obs.tpl = NoTemplate
                /\ ~obs.http.sent)

C16_Witness ==
    /\ obs.cls = "NewImage"
    /\ obs.http.sent
    /\ obs.saved \in files
    /\ obs.tpl = Object(<<OtherNode, ImageNode, TextNode>>)
    /\ obs.http.body.prompt[2].inputs.image = ImageRef(obs.saved)
    /\ last_image_hash = get_image_hash(obs.image)
    /\ prev.cls = "NewText"

\* C17: a probe that fails returns what a probe of an empty clipboard
\* returns.  After a failed image probe the text probe is made and the tick is
\* classified by the text alone; when neither probe yields content, because
\* it failed or found nothing, the tick is Empty, both trackers are null,
\* nothing is dispatched and nothing is raised.
C17_FailureIsAbsence ==
    obs.cls # "Idle" =>
        /\ (obs.image_fail =>
                /\ obs.image = NoImage
                /\ obs.text_probed
                /\ obs.text = TextNow
                /\ (NonBlank(TextNow) <=> obs.cls \in {"NewText", "Unchanged"}))
        /\ (obs.text_fail => obs.text = NoneText)
        /\ (HashNow = None /\ ~NonBlank(TextNow) =>
                /\ obs.cls = "Empty"
                /\ BothNull
                /\ ~obs.http.sent
                /\ obs.raised = None
                /\ pc # "crashed")

C17_Witness ==
    /\ obs.image_fail
    /\ obs.text_fail
    /\ obs.text_probed
    /\ prev.cls = "NewImage"
    /\ obs.cls = "Empty"
    /\ BothNull
    /\ pc = "sleep"

\* Both probes of the tick before this one failed, and this tick finds the
\* content of the latest POST again.
SameAfterFailure ==
    /\ prev.cls = "Empty"
    /\ prev.probes_failed
    /\ \/ HashNow # None /\ prev.last_sent.hash = HashNow
       \/ HashNow = None /\ NonBlank(TextNow) /\ prev.last_sent = [hash |-> None, text |-> TextNow]

\* C18: content that was dispatched, then hidden for one tick by the failure
\* of both probes, is New when it is found again: it is posted a second time
\* unless the tick ends early, and for an image a second file is written.
C18_RedispatchAfterFailure ==
    SameAfterFailure =>
        /\ obs.cls = (IF HashNow # None THEN "NewImage" ELSE "NewText")
        /\ (obs.raised = None => obs.http.sent /\ obs.http.attempts = 1)
        /\ (SaveReturned => obs.saved \in files /\ Cardinality(files) >= 2)

C18_Witness ==
    /\ SameAfterFailure
    /\ HashNow # None
    /\ obs.cls = "NewImage"
    /\ obs.http.sent
    /\ Cardinality(files) = 2

\* C19: a tick whose image has the fingerprint in last_image_hash, or which
\* has no image and whose text is not blank and is last_text_content, is
\* Unchanged: both trackers and the files stay as they are, no template is
\* read, no request is sent, and the loop goes on to sleep.
C19_UnchangedNoEffect ==
    [][pc = "tick"
         /\ \/ HashNow' # None /\ HashNow' = last_image_hash
            \/ HashNow' = None /\ NonBlank(TextNow') /\ TextNow' = last_text_content
       => /\ obs'.cls = "Unchanged"
          /\ last_image_hash' = last_image_hash
          /\ last_text_content' = last_text_content
          /\ files' = files
          /\ obs'.saved = None
          /\ obs'.content_type = None
          /\ obs'.tpl = NoTemplate
          /\ ~obs'.http.sent
          /\ obs'.raised = None
          /\ pc' = "sleep"]_vars

C19_Witness ==
    /\ obs.cls = "Unchanged"
    /\ HashNow = None
    /\ NonBlank(TextNow)
    /\ last_text_content = TextNow
    /\ last_image_hash = None
    /\ prev.cls = "NewText"
    /\ obs.tpl = NoTemplate
    /\ ~obs.http.sent

====
